---- MODULE Spec2Model ----
(***************************************************************************)
(* Model of plan-change-capturer's transport command (cmd/transport.go):   *)
(* the export/import run of newTransportCmd, the table filter, the         *)
(* snapshot-directory codec (schemaPath, statsPath, parseDBTables) and the *)
(* provisioning of an ephemeral instance (startAndConnectDB).              *)
(*                                                                         *)
(* Strings are sequences of one-character strings, so that concatenation,  *)
(* prefix/suffix tests, splitting, lower-casing and lexical order are      *)
(* computed the way the Go code computes them.                             *)
(***************************************************************************)
EXTENDS Integers, Sequences, FiniteSets, TLC

\* ------------------------------------------------------------------ bounds
MaxDBs == 2
MaxTables == 2
MaxFilter == 1
MaxNameLen == 2
MaxProcs == 4
MaxRuns == 2

\* ----------------------------------------------------------------- strings
\* The characters the model uses, in ASCII order (the order of Go's string <).
Chars ==
  <<"-", ".", "1", "2", "3", "4", "B", "D", "T", "a", "b", "c", "d", "e",
    "h", "j", "l", "m", "n", "o", "q", "s", "t">>

Rank(c) == CHOOSE i \in DOMAIN Chars : Chars[i] = c

\* s < t in the byte-wise lexical order of Go strings.
RECURSIVE StrLess(_, _)
StrLess(s, t) ==
  IF t = <<>> THEN FALSE
  ELSE IF s = <<>> THEN TRUE
  ELSE IF s[1] = t[1] THEN StrLess(Tail(s), Tail(t))
  ELSE Rank(s[1]) < Rank(t[1])

\* The elements of a finite set of strings as a sequence in lexical order.
RECURSIVE SortedSeq(_)
SortedSeq(S) ==
  IF S = {} THEN <<>>
  ELSE LET m == CHOOSE x \in S : \A y \in S \ {x} : StrLess(x, y)
       IN <<m>> \o SortedSeq(S \ {m})

Range(q) == {q[i] : i \in DOMAIN q}

\* strings.ToLower on the model's alphabet.
LowerChar(c) ==
  CASE c = "B" -> "b"
    [] c = "D" -> "d"
    [] c = "T" -> "t"
    [] OTHER -> c

ToLower(s) == [i \in DOMAIN s |-> LowerChar(s[i])]

\* strings.HasPrefix / strings.HasSuffix
HasPrefix(s, p) == Len(s) >= Len(p) /\ SubSeq(s, 1, Len(p)) = p

HasSuffix(s, x) == Len(s) >= Len(x) /\ SubSeq(s, Len(s) - Len(x) + 1, Len(s)) = x

\* strings.Split(s, "-"): the fields between the separators (one more than
\* the number of separators, empty fields included).
RECURSIVE SplitFrom(_, _, _)
SplitFrom(s, i, cur) ==
  IF i > Len(s) THEN <<cur>>
  ELSE IF s[i] = "-" THEN <<cur>> \o SplitFrom(s, i + 1, <<>>)
  ELSE SplitFrom(s, i + 1, Append(cur, s[i]))

Split(s) == SplitFrom(s, 1, <<>>)

Contains(s, c) == \E i \in DOMAIN s : s[i] = c

\* ------------------------------------------------------------ file names
PfxSchema == <<"s", "c", "h", "e", "m", "a", "-">>
SfxSql == <<".", "s", "q", "l">>
PfxStats == <<"s", "t", "a", "t", "s", "-">>
SfxJson == <<".", "j", "s", "o", "n">>
Dash == <<"-">>

\* fmt.Sprintf("schema-%v.sql", db): the DDL artifact of a database, as
\* exportDBSchemas writes it and importSchemas reads it.
SchemaFile(db) == PfxSchema \o db \o SfxSql

\* fmt.Sprintf("stats-%v-%v.json", db, table): the statistics artifact of a
\* table, as exportTableStats writes it.
StatsFile(db, table) == PfxStats \o db \o Dash \o table \o SfxJson

\* filepath.Glob(dir/"stats-"+db+"-*[.]json") on a base name: the literal
\* prefix, any run of characters, then ".json".
GlobStats(db, name) ==
  LET pfx == PfxStats \o db \o Dash
  IN /\ Len(name) >= Len(pfx) + Len(SfxJson)
     /\ HasPrefix(name, pfx)
     /\ HasSuffix(name, SfxJson)

\* The codec of the utility file: schemaPath and statsPath (base names; the
\* directory is joined in front and path.Base takes it off again).
schemaPathPerDB(db, table) == PfxSchema \o db \o SfxSql
schemaPath(db, table) == PfxSchema \o db \o Dash \o table \o SfxSql

statsPath(db, table) == PfxStats \o db \o Dash \o table \o SfxJson

\* The fields parseDBTables takes from one file name (<<>> when the name
\* has neither shape).
FieldsPrefixOnly(fname) ==
  LET f1 == IF HasPrefix(fname, PfxSchema)
            THEN Split(SubSeq(fname, Len(PfxSchema) + 1, Len(fname) - Len(SfxSql)))
            ELSE <<>>
  IN IF HasPrefix(fname, PfxStats)
     THEN Split(SubSeq(fname, Len(PfxStats) + 1, Len(fname) - Len(SfxJson)))
     ELSE f1
Fields(fname) ==
  LET f1 == IF HasPrefix(fname, PfxSchema) /\ HasSuffix(fname, SfxSql)
            THEN Split(SubSeq(fname, Len(PfxSchema) + 1, Len(fname) - Len(SfxSql)))
            ELSE <<>>
  IN IF HasPrefix(fname, PfxStats) /\ HasSuffix(fname, SfxJson)
     THEN Split(SubSeq(fname, Len(PfxStats) + 1, Len(fname) - Len(SfxJson)))
     ELSE f1

\* parseDBTables over the files of a directory, visited in lexical order
\* (filepath.Walk): database -> the tables appended for it, in visit order.
\* The result is a set of [db, tables] records, one per key of the Go map.
RECURSIVE WalkAppend(_, _)
WalkAppend(files, acc) ==
  IF files = <<>> THEN acc
  ELSE LET f == Fields(Head(files))
       IN IF Len(f) = 2
          THEN LET old == {e \in acc : e.db = f[1]}
                   prev == IF old = {} THEN <<>> ELSE (CHOOSE e \in old : TRUE).tables
               IN WalkAppend(Tail(files),
                             (acc \ old) \cup {[db |-> f[1], tables |-> Append(prev, f[2])]})
          ELSE WalkAppend(Tail(files), acc)

parseDBTables(names) == WalkAppend(SortedSeq(names), {})

\* ------------------------------------------------------------- the filter
\* The filter of exportDBSchemas' loop: the ignore map and the include map
\* are looked up with the lower-cased table name; their keys are the
\* entries of the flags as given.
SchemaSelects(t, tablesMap, ignoreTables) ==
  /\ ToLower(t) \notin ignoreTables
  /\ (Cardinality(tablesMap) > 0 => ToLower(t) \in tablesMap)

\* The filter of exportStats' loop (a second copy of the same code).
StatsSelectsIgnoreOnly(t, tablesMap, ignoreTables) == ToLower(t) \notin ignoreTables
StatsSelects(t, tablesMap, ignoreTables) ==
  /\ ToLower(t) \notin ignoreTables
  /\ (Cardinality(tablesMap) > 0 => ToLower(t) \in tablesMap)

\* -------------------------------------------------------- names in the run
d1 == <<"d", "1">>
D2 == <<"D", "2">>
d3 == <<"d", "3">>
t1 == <<"t", "1">>
T1 == <<"T", "1">>
t2 == <<"t", "2">>
T2 == <<"T", "2">>
t3 == <<"t", "3">>
t4 == <<"t", "4">>

AllDBs == <<d1, D2, d3>>
AllTables == <<t1, T2, t3>>
FilterNames == {t1, T1, t2}

Min(a, b) == IF a < b THEN a ELSE b
Prefix(q, n) == SubSeq(q, 1, Min(n, Len(q)))

\* The lists a flag can hold: one list per set of at most MaxFilter entries.
FilterLists == {SortedSeq(S) : S \in {X \in SUBSET FilterNames : Cardinality(X) <= MaxFilter}}

\* ------------------------------------------------------------------- state
VARIABLES
  opt,              \* transportOptions: srcAddr/dstAddr (set or empty), dbs, tables, ignoreTables
  srcDB,            \* the source: the tables "show tables" lists in each requested database,
                    \* and the tables whose statistics request is answered with an error status
  dir,              \* the snapshot directory: a set of files [name, tabs, body]
  dir0,             \* the snapshot directory as the run found it
  pc,               \* the position of RunE
  dbIdx,            \* the index of the database the current loop is at
  tblIdx,           \* exportStats: the index of the table (0: getTables not yet called)
  tables,           \* exportStats: the result of getTables for the current database
  tablesMap,        \* RunE: the include map built from opt.tables
  ignoreTablesMap,  \* RunE: the ignore map built from opt.ignoreTables
  err,              \* the error RunE returns ([kind |-> "nil"] for none)
  trace,            \* the statements, requests and file writes of the run, in order
  dst,              \* the destination: its databases, and its tables as <<db, table>>
  prev,             \* the outcome [err, dst] of each earlier run against the same destination
  cTriple,          \* codec: the (kind, db, table) triple that is encoded
  cDir,             \* codec: the file names of the directory that is decoded
  cOut,             \* codec: the result of parseDBTables
  cpc,              \* codec: position
  procs,            \* instances: process id -> "running" | "stopped"
  handles,          \* instances: the handlers the caller holds, [p |-> id]
  ret               \* instances: what the last startAndConnectDB returned

runVars ==
  <<opt, srcDB, dir, dir0, pc, dbIdx, tblIdx, tables, tablesMap, ignoreTablesMap, err, trace,
    dst, prev>>
codecVars == <<cTriple, cDir, cOut, cpc>>
instVars == <<procs, handles, ret>>
vars == <<runVars, codecVars, instVars>>

NoErr == [kind |-> "nil", path |-> <<>>]
Err(kind, path) == [kind |-> kind, path |-> path]

\* One step of the run, as the trace records it: the function that takes it,
\* the statement, request or file operation, its database, table and file,
\* and whether it succeeded.
Ev(fn, op, db, tbl, file, ok) ==
  [fn |-> fn, op |-> op, db |-> db, tbl |-> tbl, file |-> file, ok |-> ok]

File(name, tabs, body) == [name |-> name, tabs |-> tabs, body |-> body]

\* os.OpenFile(path, O_CREATE|O_WRONLY|O_TRUNC) followed by writes that
\* leave `tabs`/`body` in the file: the file of that name is replaced.
Put(d, name, tabs, body) == {f \in d : f.name # name} \cup {File(name, tabs, body)}

Exists(d, name) == \E f \in d : f.name = name
Get(d, name) == CHOOSE f \in d : f.name = name

\* The state of the variables a specification does not use.
RunIdle ==
  /\ opt = [srcAddr |-> FALSE, dstAddr |-> FALSE, dbs |-> <<>>, tables |-> <<>>,
            ignoreTables |-> <<>>]
  /\ srcDB = [tables |-> <<>>, non2xx |-> {}]
  /\ dir = {}
  /\ dir0 = {}
  /\ pc = "idle"
  /\ dbIdx = 0
  /\ tblIdx = 0
  /\ tables = <<>>
  /\ tablesMap = {}
  /\ ignoreTablesMap = {}
  /\ err = NoErr
  /\ trace = <<>>
  /\ dst = [dbs |-> {}, tables |-> {}]
  /\ prev = <<>>

CodecIdle ==
  /\ cTriple = [kind |-> "none", db |-> <<>>, table |-> <<>>]
  /\ cDir = {}
  /\ cOut = {}
  /\ cpc = "idle"

InstIdle ==
  /\ procs = <<>>
  /\ handles = {}
  /\ ret = [h |-> 0, err |-> FALSE]

\* ----------------------------------------------------- the transport run
\* The directories a run can find: empty; a complete snapshot of an earlier
\* run (with a statistics artifact of a table t4 that is listed no more); a
\* damaged snapshot; the statistics artifacts alone.
Snapshot(dbs, tbls) ==
  {File(SchemaFile(dbs[i]), Range(tbls), "json") : i \in DOMAIN dbs}
    \cup {File(StatsFile(dbs[i], tbls[j]), {}, "dump") : i \in DOMAIN dbs, j \in DOMAIN tbls}
    \cup {File(StatsFile(dbs[i], t4), {}, "dump") : i \in DOMAIN dbs}

\* The first database's DDL artifact cut short.
Damaged(dbs, tbls) ==
  {File(SchemaFile(dbs[1]), {}, "partial")}
    \cup {File(StatsFile(dbs[i], tbls[j]), {}, "dump") : i \in DOMAIN dbs, j \in DOMAIN tbls}

\* Statistics artifacts, and no DDL artifact.
StatsOnly(dbs, tbls) ==
  {File(StatsFile(dbs[i], tbls[j]), {}, "dump") : i \in DOMAIN dbs, j \in DOMAIN tbls}

InitDirs(dbs, tbls) == {{}, Snapshot(dbs, tbls), Damaged(dbs, tbls), StatsOnly(dbs, tbls)}

RunInit ==
  /\ \E sa \in BOOLEAN, da \in BOOLEAN, n \in 1..MaxDBs, inc \in FilterLists, ign \in FilterLists :
       /\ opt = [srcAddr |-> sa, dstAddr |-> da, dbs |-> Prefix(AllDBs, n), tables |-> inc,
                 ignoreTables |-> ign]
       \* without a source the filter flags are not read: one value stands for all
       /\ ~sa => inc = <<>> /\ ign = <<>>
  /\ \E bad \in {{}} \cup {{AllTables[i]} : i \in 1..Min(MaxTables, Len(AllTables))} :
       /\ srcDB = [tables |-> Prefix(AllTables, MaxTables), non2xx |-> bad]
       /\ ~opt.srcAddr => bad = {}
  /\ dir \in InitDirs(opt.dbs, srcDB.tables)
  /\ dir0 = dir
  /\ pc = "start"
  /\ dbIdx = 0
  /\ tblIdx = 0
  /\ tables = <<>>
  /\ tablesMap = {}
  /\ ignoreTablesMap = {}
  /\ err = NoErr
  /\ trace = <<>>
  /\ dst = [dbs |-> {}, tables |-> {}]
  /\ prev = <<>>

\* return fmt.Errorf(...) from RunE
Fail(kind, path) ==
  /\ err' = Err(kind, path)
  /\ pc' = "done"

\* RunE after os.MkdirAll (76, 99): the source side if opt.src.addr is set,
\* else the destination side if opt.dst.addr is set.
AfterStart == IF opt.srcAddr THEN "connectSrc" ELSE IF opt.dstAddr THEN "connectDst" ELSE "done"

\* RunE after the export (97-99, 113).
AfterExport == IF opt.dstAddr THEN "connectDst" ELSE "done"

\* RunE on the destination side: importSchemas comes first (105), then
\* importStats (108).
DstFirstStepStats == "importStats"
DstFirstStep == "importSchemas"

\* exportDBSchemas returns an error: exportSchemas returns it (135-137) and
\* RunE returns it (91-93).
SchemaExportFailSkip ==
  /\ err' = Err("exportSchemas", <<>>)
  /\ dbIdx' = dbIdx + 1
  /\ UNCHANGED pc
SchemaExportFail ==
  /\ Fail("exportSchemas", <<>>)
  /\ UNCHANGED dbIdx

\* getTables returns an error in exportStats (199-201, 94-96).
StatsGetTablesFail ==
  /\ Fail("exportStatsGetTables", <<>>)
  /\ UNCHANGED <<tables, tblIdx>>

\* exportTableStats returns an error: exportStats returns it (212-214) and
\* RunE returns it (94-96).
StatsExportFail ==
  /\ Fail("exportTableStats", <<>>)
  /\ UNCHANGED tblIdx

\* importSchemas returns an error (246, 249, 254, 258, 264) and RunE
\* returns it (105-107).
SchemaImportFailSkip(kind, path) ==
  /\ err' = Err(kind, path)
  /\ dbIdx' = dbIdx + 1
  /\ UNCHANGED pc
SchemaImportFail(kind, path) ==
  /\ Fail(kind, path)
  /\ UNCHANGED dbIdx

\* importStats returns the error of "load stats" (280-282) and RunE returns
\* it (108-110).
StatsImportFail(path) ==
  /\ Fail("loadStats", path)
  /\ UNCHANGED dbIdx

\* RunE, lines 70-76 and 99.
Begin ==
  /\ pc = "start"
  /\ \/ /\ Fail("mkdir", <<>>)
     \/ /\ pc' = AfterStart
        /\ err' = NoErr
  /\ UNCHANGED <<opt, srcDB, dir0, prev, dst, dir, dbIdx, tblIdx, tables, tablesMap, ignoreTablesMap, trace>>

\* RunE, lines 78-90: newDBHandler(opt.src), then the two maps.
ConnectSrc ==
  /\ pc = "connectSrc"
  /\ \/ /\ Fail("connectSrc", <<>>)
        /\ UNCHANGED <<tablesMap, ignoreTablesMap, dbIdx>>
     \/ /\ tablesMap' = Range(opt.tables)
        /\ ignoreTablesMap' = Range(opt.ignoreTables)
        /\ pc' = "exportSchemas"
        /\ dbIdx' = 1
        /\ err' = NoErr
  /\ UNCHANGED <<opt, srcDB, dir0, prev, dst, dir, tblIdx, tables, trace>>

\* The tables of exportDBSchemas' loop that reach "show create table".
SchemaSelected(tbls) ==
  SelectSeq(tbls, LAMBDA t : SchemaSelects(t, tablesMap, ignoreTablesMap))

\* The "show create table" queries of tables sel[1..n], the last one
\* failing when lastOk is FALSE.
ShowCreates(db, sel, n, lastOk) ==
  [i \in 1..n |-> Ev("exportDBSchemas", "showCreate", db, sel[i], <<>>, i < n \/ lastOk)]

\* exportSchemas' loop body: exportDBSchemas for dbs[dbIdx], lines 134-138
\* and 142-194.
ExportDBSchemas ==
  /\ pc = "exportSchemas"
  /\ dbIdx <= Len(opt.dbs)
  /\ LET db == opt.dbs[dbIdx]
         sel == SchemaSelected(srcDB.tables)
         path == SchemaFile(db)
         keys == {sel[i] : i \in DOMAIN sel}
         E(op, file, ok) == Ev("exportDBSchemas", op, db, <<>>, file, ok)
         queried == <<E("getTables", <<>>, TRUE)>> \o ShowCreates(db, sel, Len(sel), TRUE)
     IN \/ \* getTables fails (143-146)
           /\ trace' = Append(trace, E("getTables", <<>>, FALSE))
           /\ SchemaExportFail
           /\ UNCHANGED dir
        \/ \* the query or the scan of the k-th selected table fails (161-174)
           \E k \in 1..Len(sel) :
             /\ trace' = trace \o <<E("getTables", <<>>, TRUE)>> \o ShowCreates(db, sel, k, FALSE)
             /\ SchemaExportFail
             /\ UNCHANGED dir
        \/ \* os.OpenFile fails (177-180)
           /\ trace' = trace \o queried \o <<E("open", path, FALSE)>>
           /\ SchemaExportFail
           /\ UNCHANGED dir
        \/ \* file.Write fails after the file was truncated (185-187): the
           \* file holds the first j entries of the encoded map
           \E j \in 0..Len(sel) :
             /\ dir' = Put(dir, path, Range(Prefix(SortedSeq(keys), j)), "partial")
             /\ trace' = trace \o queried \o <<E("open", path, TRUE), E("write", path, FALSE)>>
             /\ SchemaExportFail
        \/ \* file.Close fails after the write (188-190)
           /\ dir' = Put(dir, path, keys, "json")
           /\ trace' = trace \o queried
                             \o <<E("open", path, TRUE), E("write", path, TRUE), E("close", path, FALSE)>>
           /\ SchemaExportFail
        \/ \* success (193)
           /\ dir' = Put(dir, path, keys, "json")
           /\ trace' = trace \o queried
                             \o <<E("open", path, TRUE), E("write", path, TRUE), E("close", path, TRUE)>>
           /\ dbIdx' = dbIdx + 1
           /\ UNCHANGED <<pc, err>>
  /\ UNCHANGED <<opt, srcDB, dir0, prev, dst, tblIdx, tables, tablesMap, ignoreTablesMap>>

\* exportSchemas returns nil (139); RunE calls exportStats (94).
ExportSchemasReturn ==
  /\ pc = "exportSchemas"
  /\ dbIdx > Len(opt.dbs)
  /\ pc' = "exportStats"
  /\ dbIdx' = 1
  /\ tblIdx' = 0
  /\ tables' = <<>>
  /\ UNCHANGED <<opt, srcDB, dir0, prev, dst, dir, tablesMap, ignoreTablesMap, err, trace>>

\* exportStats, lines 197-201: getTables for dbs[dbIdx].
ExportStatsGetTables ==
  /\ pc = "exportStats"
  /\ dbIdx <= Len(opt.dbs)
  /\ tblIdx = 0
  /\ LET db == opt.dbs[dbIdx]
     IN \/ /\ trace' = Append(trace, Ev("exportStats", "getTables", db, <<>>, <<>>, FALSE))
           /\ StatsGetTablesFail
        \/ /\ trace' = Append(trace, Ev("exportStats", "getTables", db, <<>>, <<>>, TRUE))
           /\ tables' = srcDB.tables
           /\ tblIdx' = 1
           /\ UNCHANGED <<pc, err>>
  /\ UNCHANGED <<opt, srcDB, dir0, prev, dst, dir, dbIdx, tablesMap, ignoreTablesMap>>

\* exportStats' inner loop body for tables[tblIdx], lines 202-215, with
\* exportTableStats, lines 220-241.
ExportStatsTable ==
  /\ pc = "exportStats"
  /\ dbIdx <= Len(opt.dbs)
  /\ tblIdx \in 1..Len(tables)
  /\ LET db == opt.dbs[dbIdx]
         t == tables[tblIdx]
         path == StatsFile(db, t)
         E(op, file, ok) == Ev("exportTableStats", op, db, t, file, ok)
     IN IF ~StatsSelects(t, tablesMap, ignoreTablesMap)
        THEN \* continue (203-211)
             /\ tblIdx' = tblIdx + 1
             /\ UNCHANGED <<dir, pc, err, trace>>
        ELSE \/ \* http.Get returns an error (222-225)
                /\ trace' = Append(trace, E("get", <<>>, FALSE))
                /\ StatsExportFail
                /\ UNCHANGED dir
             \/ \* os.OpenFile fails (227-230)
                /\ trace' = trace \o <<E("get", <<>>, TRUE), E("open", path, FALSE)>>
                /\ StatsExportFail
                /\ UNCHANGED dir
             \/ \* io.Copy or Flush fails after the file was truncated (233-238)
                /\ dir' = Put(dir, path, {}, "partial")
                /\ trace' = trace \o <<E("get", <<>>, TRUE), E("open", path, TRUE),
                                       E("write", path, FALSE)>>
                /\ StatsExportFail
             \/ \* the response body is written, whatever the status of the
                \* response (the status code is not read): a dump (2xx), or
                \* the body of an error response
                LET body == IF t \in srcDB.non2xx THEN "errbody" ELSE "dump"
                IN
                  /\ dir' = Put(dir, path, {}, body)
                  /\ trace' = trace \o <<E("get", <<>>, TRUE), E("status2xx", <<>>, body = "dump"),
                                         E("open", path, TRUE), E("write", path, TRUE)>>
                  /\ tblIdx' = tblIdx + 1
                  /\ UNCHANGED <<pc, err>>
  /\ UNCHANGED <<opt, srcDB, dir0, prev, dst, dbIdx, tables, tablesMap, ignoreTablesMap>>

\* exportStats: the inner loop ends, the outer loop goes on (197, 216).
ExportStatsNextDB ==
  /\ pc = "exportStats"
  /\ dbIdx <= Len(opt.dbs)
  /\ tblIdx > Len(tables)
  /\ dbIdx' = dbIdx + 1
  /\ tblIdx' = 0
  /\ tables' = <<>>
  /\ UNCHANGED <<opt, srcDB, dir0, prev, dst, dir, pc, tablesMap, ignoreTablesMap, err, trace>>

\* exportStats returns nil (217); RunE goes on to the destination (97-99).
ExportStatsReturn ==
  /\ pc = "exportStats"
  /\ dbIdx > Len(opt.dbs)
  /\ pc' = AfterExport
  /\ UNCHANGED <<opt, srcDB, dir0, prev, dst, dir, dbIdx, tblIdx, tables, tablesMap, ignoreTablesMap, err, trace>>

\* RunE, lines 99-105: newDBHandler(opt.dst).
ConnectDst ==
  /\ pc = "connectDst"
  /\ \/ /\ Fail("connectDst", <<>>)
        /\ UNCHANGED dbIdx
     \/ /\ pc' = DstFirstStep
        /\ dbIdx' = 1
        /\ UNCHANGED err
  /\ UNCHANGED <<opt, srcDB, dir0, prev, dst, dir, tblIdx, tables, tablesMap, ignoreTablesMap, trace>>

\* The statements of a decoded DDL artifact that were executed: those of
\* the tables `done`, which the trace lists in lexical order.
ExecDDLs(db, path, done) ==
  [i \in 1..Cardinality(done) |-> Ev("importSchemas", "ddl", db, SortedSeq(done)[i], path, TRUE)]

\* The destination after "create database if not exists" of db and the
\* statements of the tables `done`.
Created(db, done) ==
  [dbs |-> dst.dbs \cup {db}, tables |-> dst.tables \cup {<<db, t>> : t \in done}]

\* The tables of an artifact that the destination holds already.  Their
\* statement is the text "show create table" gave (160-171), executed as it
\* is (262-263): a CREATE TABLE, which fails on a table that exists.
Existing(db, tabs) == {t \in tabs : <<db, t>> \in dst.tables}

\* importSchemas' loop body for dbs[dbIdx], lines 244-268.  The statements
\* of the artifact are executed in the iteration order of a Go map, which is
\* any order: when one fails, any set of the others was executed before it.
ImportDBSchemas ==
  /\ pc = "importSchemas"
  /\ dbIdx <= Len(opt.dbs)
  /\ LET db == opt.dbs[dbIdx]
         path == SchemaFile(db)
         E(op, file, ok) == Ev("importSchemas", op, db, <<>>, file, ok)
         opened == <<E("createDB", <<>>, TRUE), E("useDB", <<>>, TRUE)>>
     IN \/ \* "create database if not exists" fails (245-247)
           /\ trace' = Append(trace, E("createDB", <<>>, FALSE))
           /\ SchemaImportFail("createDB", <<>>)
           /\ UNCHANGED dst
        \/ \* "use" fails (248-250)
           /\ trace' = trace \o <<E("createDB", <<>>, TRUE), E("useDB", <<>>, FALSE)>>
           /\ SchemaImportFail("useDB", <<>>)
           /\ dst' = Created(db, {})
        \/ \* ioutil.ReadFile fails: no such file (252-255)
           /\ ~Exists(dir, path)
           /\ trace' = trace \o opened \o <<E("read", path, FALSE)>>
           /\ SchemaImportFail("readFile", path)
           /\ dst' = Created(db, {})
        \/ \* json.Unmarshal fails on a file that was cut short (257-259)
           /\ Exists(dir, path)
           /\ Get(dir, path).body # "json"
           /\ trace' = trace \o opened \o <<E("read", path, TRUE), E("unmarshal", path, FALSE)>>
           /\ SchemaImportFail("unmarshal", path)
           /\ dst' = Created(db, {})
        \/ \* the statement of table t fails (263-265): the table exists, or
           \* the destination returns another error
           /\ Exists(dir, path)
           /\ Get(dir, path).body = "json"
           /\ LET tabs == Get(dir, path).tabs
              IN \E t \in tabs :
                   \E done \in SUBSET ((tabs \ {t}) \ Existing(db, tabs)) :
                     /\ trace' = trace \o opened
                                       \o <<E("read", path, TRUE), E("unmarshal", path, TRUE)>>
                                       \o ExecDDLs(db, path, done)
                                       \o <<Ev("importSchemas", "ddl", db, t, path, FALSE)>>
                     /\ SchemaImportFail("execSQL", path)
                     /\ dst' = Created(db, done)
        \/ \* every statement is executed (267): none of the tables existed
           /\ Exists(dir, path)
           /\ Get(dir, path).body = "json"
           /\ Existing(db, Get(dir, path).tabs) = {}
           /\ trace' = trace \o opened
                             \o <<E("read", path, TRUE), E("unmarshal", path, TRUE)>>
                             \o ExecDDLs(db, path, Get(dir, path).tabs)
           /\ dst' = Created(db, Get(dir, path).tabs)
           /\ dbIdx' = dbIdx + 1
           /\ UNCHANGED <<pc, err>>
  /\ UNCHANGED <<opt, srcDB, dir0, prev, dir, tblIdx, tables, tablesMap, ignoreTablesMap>>

\* importSchemas returns nil (269); RunE calls importStats (108).
ImportSchemasReturn ==
  /\ pc = "importSchemas"
  /\ dbIdx > Len(opt.dbs)
  /\ pc' = "importStats"
  /\ dbIdx' = 1
  /\ UNCHANGED <<opt, srcDB, dir0, prev, dst, dir, tblIdx, tables, tablesMap, ignoreTablesMap, err, trace>>

\* The files filepath.Glob returns for a database, in lexical order.
GlobFiles(d, db) == SortedSeq({f.name : f \in {g \in d : GlobStats(db, g.name)}})

\* "load stats" of files[1..n], the last one failing when lastOk is FALSE.
LoadStats(db, files, n, lastOk) ==
  [i \in 1..n |-> Ev("importStats", "loadStats", db, <<>>, files[i], i < n \/ lastOk)]

\* importStats' loop body for dbs[dbIdx], lines 273-285.
ImportDBStats ==
  /\ pc = "importStats"
  /\ dbIdx <= Len(opt.dbs)
  /\ LET db == opt.dbs[dbIdx]
         files == GlobFiles(dir, db)
     IN \/ \* the k-th "load stats" fails (280-282)
           \E k \in 1..Len(files) :
             /\ trace' = trace \o LoadStats(db, files, k, FALSE)
             /\ StatsImportFail(files[k])
        \/ \* every file is loaded
           /\ trace' = trace \o LoadStats(db, files, Len(files), TRUE)
           /\ dbIdx' = dbIdx + 1
           /\ UNCHANGED <<pc, err>>
  /\ UNCHANGED <<opt, srcDB, dir0, prev, dst, dir, tblIdx, tables, tablesMap, ignoreTablesMap>>

\* importStats returns nil (286); RunE returns nil (113).
ImportStatsReturn ==
  /\ pc = "importStats"
  /\ dbIdx > Len(opt.dbs)
  /\ pc' = "done"
  /\ UNCHANGED <<opt, srcDB, dir0, prev, dst, dir, dbIdx, tblIdx, tables, tablesMap, ignoreTablesMap, err, trace>>

otherVars == <<codecVars, instVars>>

Init == RunInit /\ CodecIdle /\ InstIdle

Next ==
  \/ Begin /\ UNCHANGED otherVars
  \/ ConnectSrc /\ UNCHANGED otherVars
  \/ ExportDBSchemas /\ UNCHANGED otherVars
  \/ ExportSchemasReturn /\ UNCHANGED otherVars
  \/ ExportStatsGetTables /\ UNCHANGED otherVars
  \/ ExportStatsTable /\ UNCHANGED otherVars
  \/ ExportStatsNextDB /\ UNCHANGED otherVars
  \/ ExportStatsReturn /\ UNCHANGED otherVars
  \/ ConnectDst /\ UNCHANGED otherVars
  \/ ImportDBSchemas /\ UNCHANGED otherVars
  \/ ImportSchemasReturn /\ UNCHANGED otherVars
  \/ ImportDBStats /\ UNCHANGED otherVars
  \/ ImportStatsReturn /\ UNCHANGED otherVars

\* One run of the transport command.
Spec == Init /\ [][Next]_vars

\* The command is invoked again with the same flags, the same directory and
\* the same destination (RunE, 69-113): the outcome of the run that ended is
\* kept for comparison.
RunAgain ==
  /\ pc = "done"
  /\ Len(prev) < MaxRuns - 1
  /\ prev' = Append(prev, [err |-> err, dst |-> dst])
  /\ pc' = "start"
  /\ err' = NoErr
  /\ trace' = <<>>
  /\ dbIdx' = 0
  /\ UNCHANGED <<opt, srcDB, dir0, dir, dst, tblIdx, tables, tablesMap, ignoreTablesMap>>

ImportTwiceInit == Init /\ ~opt.srcAddr /\ opt.dstAddr

ImportTwiceNext ==
  \/ Begin /\ UNCHANGED otherVars
  \/ ConnectDst /\ UNCHANGED otherVars
  \/ ImportDBSchemas /\ UNCHANGED otherVars
  \/ ImportSchemasReturn /\ UNCHANGED otherVars
  \/ ImportDBStats /\ UNCHANGED otherVars
  \/ ImportStatsReturn /\ UNCHANGED otherVars
  \/ RunAgain /\ UNCHANGED otherVars

\* Import-only runs of the command, one after the other, against one
\* destination and one snapshot directory.
ImportTwiceSpec == ImportTwiceInit /\ [][ImportTwiceNext]_vars

\* ------------------------------------------------------------- the codec
Kinds == {"schema", "stats"}
NameChars == {"a", "B", "-", "."}

\* The database and table names that are encoded: every string of at most
\* MaxNameLen characters.
Names == UNION {[1..n -> NameChars] : n \in 0..MaxNameLen}

\* The encoder of a kind.
EncodePath(kind, db, table) ==
  IF kind = "schema" THEN schemaPath(db, table) ELSE statsPath(db, table)

\* Files a snapshot directory can hold beside the encoded one: a DDL
\* artifact named by its database alone, a name of three fields, a wrong
\* suffix, a wrong prefix, and the statistics artifact of another table.
OtherFiles ==
  { PfxSchema \o <<"a">> \o SfxSql,
    PfxSchema \o <<"a", "-", "B", "-", "a">> \o SfxSql,
    PfxStats \o <<"a", "-", "B">> \o SfxSql,
    <<"a", "-", "B">> \o SfxJson,
    PfxStats \o <<"a", "-", "a">> \o SfxJson }

\* The directory before the encoder's file is put in: empty, one of the
\* other files, or all of them.
OtherFileSets == {{}, OtherFiles} \cup {{f} : f \in OtherFiles}

CodecInit ==
  /\ cTriple \in [kind : Kinds, db : Names, table : Names]
  /\ cDir \in OtherFileSets
  /\ cOut = {}
  /\ cpc = "encode"

\* The file named by the encoder is put into the directory.
Encode ==
  /\ cpc = "encode"
  /\ cDir' = cDir \cup {EncodePath(cTriple.kind, cTriple.db, cTriple.table)}
  /\ cpc' = "decode"
  /\ UNCHANGED <<cTriple, cOut>>

\* parseDBTables(dir)
Decode ==
  /\ cpc = "decode"
  /\ cOut' = parseDBTables(cDir)
  /\ cpc' = "decoded"
  /\ UNCHANGED <<cTriple, cDir>>

CodecNext ==
  \/ Encode /\ UNCHANGED <<runVars, instVars>>
  \/ Decode /\ UNCHANGED <<runVars, instVars>>

\* A triple is encoded into a directory and the directory decoded.
CodecSpecInit == RunIdle /\ CodecInit /\ InstIdle

CodecSpec == CodecSpecInit /\ [][CodecNext]_vars

\* ---------------------------------------------------- ephemeral instances
Versions == {<<>>, <<"4">>}

\* startAndConnectDB, lines 404-420: no version, no instance; else the
\* instance is started and connectDB is called, and only a successful
\* connection puts the process into the handler that is returned.
StartAndConnectDB ==
  /\ \E version \in Versions :
       IF version = <<>>
       THEN /\ ret' = [h |-> 0, err |-> TRUE]
            /\ UNCHANGED <<procs, handles>>
       ELSE /\ Len(procs) < MaxProcs
            /\ procs' = Append(procs, "running")
            /\ \/ \* connectDB fails (414-417)
                  /\ ret' = [h |-> 0, err |-> TRUE]
                  /\ UNCHANGED handles
               \/ \* connectDB succeeds (418-419)
                  /\ ret' = [h |-> Len(procs) + 1, err |-> FALSE]
                  /\ handles' = handles \cup {[p |-> Len(procs) + 1]}

\* The caller releases a handler it holds: the process is stopped.
Release ==
  /\ \E h \in handles :
       /\ procs' = [procs EXCEPT ![h.p] = "stopped"]
       /\ handles' = handles \ {h}
  /\ UNCHANGED ret

InstInit ==
  /\ procs = <<>>
  /\ handles = {}
  /\ ret = [h |-> 0, err |-> FALSE]

InstNext ==
  \/ StartAndConnectDB /\ UNCHANGED <<runVars, codecVars>>
  \/ Release /\ UNCHANGED <<runVars, codecVars>>

\* Instances are provisioned and released, one call after the other.
InstSpecInit == RunIdle /\ CodecIdle /\ InstInit

InstSpec == InstSpecInit /\ [][InstNext]_vars

\* ------------------------------------------------------ reading the trace
Happened(P(_)) == \E i \in DOMAIN trace : P(trace[i])

\* "show create table" was issued for the table.
SchemaHandled(db, t) ==
  Happened(LAMBDA e : e.fn = "exportDBSchemas" /\ e.op = "showCreate" /\ e.db = db /\ e.tbl = t)

\* exportTableStats was called for the table.
StatsHandled(db, t) ==
  Happened(LAMBDA e : e.fn = "exportTableStats" /\ e.op = "get" /\ e.db = db /\ e.tbl = t)

\* exportDBSchemas returned nil for the database.
SchemaExported(db) ==
  Happened(LAMBDA e : e.fn = "exportDBSchemas" /\ e.op = "close" /\ e.db = db /\ e.ok)

\* exportStats went through the tables of the database.
StatsListed(db) ==
  Happened(LAMBDA e : e.fn = "exportStats" /\ e.op = "getTables" /\ e.db = db /\ e.ok)

\* importSchemas decoded the artifact of the database.
SchemaDecoded(db) ==
  Happened(LAMBDA e : e.fn = "importSchemas" /\ e.op = "unmarshal" /\ e.db = db /\ e.ok)

DDLExecuted(db, t) ==
  Happened(LAMBDA e : e.fn = "importSchemas" /\ e.op = "ddl" /\ e.db = db /\ e.tbl = t /\ e.ok)

StatsLoadTried(db, file) ==
  Happened(LAMBDA e : e.fn = "importStats" /\ e.op = "loadStats" /\ e.db = db /\ e.file = file)

DBs == Range(opt.dbs)

\* Both exports ran to their end.
ExportComplete ==
  /\ opt.srcAddr
  /\ \/ pc \in {"connectDst", "importSchemas", "importStats"}
     \/ /\ pc = "done"
        /\ err.kind \notin {"mkdir", "connectSrc", "exportSchemas", "exportStatsGetTables",
                            "exportTableStats"}

\* The entry list names the table, names compared without regard to case.
InList(t, list) == \E e \in Range(list) : ToLower(e) = ToLower(t)

\* ------------------------------------------------------------------ claims
\* C1: once both exports have run, schema export and statistics export have
\* handled a table if and only if the table is absent from the ignore list
\* and the include list is empty or holds the table.
FilterIncludeExclude ==
  ExportComplete =>
    \A db \in DBs, t \in Range(srcDB.tables) :
      LET pass == ~InList(t, opt.ignoreTables)
                    /\ (opt.tables = <<>> \/ InList(t, opt.tables))
      IN /\ SchemaHandled(db, t) <=> pass
         /\ StatsHandled(db, t) <=> pass

\* C2: an include or ignore entry matches a table whenever the two are equal
\* after lower-casing both: a table matched by an ignore entry is exported by
\* neither export, and, with no ignore list, a table matched by an include
\* entry is exported by both.
FilterCaseInsensitive ==
  ExportComplete =>
    \A db \in DBs, t \in Range(srcDB.tables) :
      /\ \A e \in Range(opt.ignoreTables) :
           ToLower(e) = ToLower(t) => ~SchemaHandled(db, t) /\ ~StatsHandled(db, t)
      /\ \A e \in Range(opt.tables) :
           ToLower(e) = ToLower(t) /\ opt.ignoreTables = <<>>
             => SchemaHandled(db, t) /\ StatsHandled(db, t)

\* C3: when the statistics fetch or write of one table has failed, the run
\* has not ended with that error, every other selected table of every
\* database is still attempted, and the import (if configured) still runs.
StatsExportBestEffort ==
  (pc = "done" /\ Happened(LAMBDA e : e.fn = "exportTableStats" /\ ~e.ok /\ e.op # "status2xx"))
    => /\ err.kind # "exportTableStats"
       /\ \A db \in DBs, t \in Range(srcDB.tables) :
            StatsSelects(t, tablesMap, ignoreTablesMap) => StatsHandled(db, t)
       /\ opt.dstAddr => Happened(LAMBDA e : e.fn = "importSchemas")

\* C4: when "load stats" of one artifact has failed, every other artifact of
\* every database is still loaded and the run does not end with that error.
StatsImportBestEffort ==
  (pc = "done" /\ Happened(LAMBDA e : e.fn = "importStats" /\ ~e.ok))
    => /\ err.kind # "loadStats"
       /\ \A db \in DBs : \A i \in DOMAIN GlobFiles(dir, db) :
            StatsLoadTried(db, GlobFiles(dir, db)[i])

\* C5: after exportDBSchemas has returned for a database, either it returned
\* no error and the artifact holds the DDL of every selected table, or it
\* returned an error and the file it opened is no partial artifact.
DDLArtifactAllOrNothing ==
  \A db \in DBs :
    LET path == SchemaFile(db)
        failed == Happened(LAMBDA e : e.fn = "exportDBSchemas" /\ e.db = db /\ ~e.ok)
        opened == Happened(LAMBDA e : e.fn = "exportDBSchemas" /\ e.db = db /\ e.op = "open" /\ e.ok)
    IN /\ SchemaExported(db) =>
            /\ Exists(dir, path)
            /\ Get(dir, path).body = "json"
            /\ Get(dir, path).tabs = Range(SchemaSelected(srcDB.tables))
       /\ (failed /\ opened) => ~(Exists(dir, path) /\ Get(dir, path).body = "partial")

\* C6: if exportDBSchemas fails for a database, the run ends there with the
\* error: no schema export of a later database, no statistics export, no
\* statement on the destination.
SchemaExportFailureFatal ==
  \A i \in DOMAIN trace :
    (trace[i].fn = "exportDBSchemas" /\ ~trace[i].ok) =>
      /\ i = Len(trace)
      /\ pc = "done"
      /\ err.kind = "exportSchemas"
      /\ \A j \in DOMAIN trace :
           /\ trace[j].fn = "exportDBSchemas"
           /\ \E k \in 1..dbIdx : opt.dbs[k] = trace[j].db
      /\ trace[i].db = opt.dbs[dbIdx]
      /\ {f \in dir : HasPrefix(f.name, PfxStats)} = {f \in dir0 : HasPrefix(f.name, PfxStats)}

\* C6 witness: the schema export of the first of several databases has
\* failed in a run that has a destination.
SchemaExportFailedEarly ==
  /\ pc = "done"
  /\ err.kind = "exportSchemas"
  /\ opt.dstAddr
  /\ dbIdx = 1
  /\ Len(opt.dbs) > 1
  /\ Happened(LAMBDA e : e.op = "showCreate" /\ ~e.ok)

Phase(fn) ==
  CASE fn = "exportDBSchemas" -> 1
    [] fn \in {"exportStats", "exportTableStats"} -> 2
    [] fn = "importSchemas" -> 3
    [] fn = "importStats" -> 4

\* C7: the steps of a run come in the order schema export, statistics
\* export, schema import, statistics import, each over all databases before
\* the next begins; export steps only with a source, import steps only with
\* a destination; a run without error has done every side that is configured.
StepsInOrder ==
  /\ \A i \in 1..(Len(trace) - 1) : Phase(trace[i].fn) <= Phase(trace[i + 1].fn)
  /\ \A i \in DOMAIN trace :
       LET ph == Phase(trace[i].fn)
       IN /\ ph <= 2 => opt.srcAddr
          /\ ph >= 3 => opt.dstAddr
          /\ (ph >= 2 /\ opt.srcAddr) => \A db \in DBs : SchemaExported(db)
          /\ (ph >= 3 /\ opt.srcAddr) => \A db \in DBs : StatsListed(db)
          /\ ph >= 4 => \A db \in DBs : SchemaDecoded(db)
  /\ (pc = "done" /\ err = NoErr) =>
       /\ opt.srcAddr => \A db \in DBs : SchemaExported(db) /\ StatsListed(db)
       /\ opt.dstAddr => \A db \in DBs : SchemaDecoded(db)

\* C7 witness: a run with both sides, over several databases, has ended
\* without error and has loaded statistics.
FullRunDone ==
  /\ pc = "done"
  /\ err = NoErr
  /\ opt.srcAddr
  /\ opt.dstAddr
  /\ Len(opt.dbs) > 1
  /\ Happened(LAMBDA e : e.op = "loadStats")
  /\ Happened(LAMBDA e : e.op = "ddl")

\* C8: when the DDL artifact of a database is missing or cannot be decoded,
\* or one of its statements fails, importSchemas returns an error naming the
\* artifact, nothing more is executed for that or a later database, and no
\* "load stats" is issued; statistics import is reached only with every
\* artifact read, decoded and executed.
SchemaImportFailureAborts ==
  /\ \A i \in DOMAIN trace :
       (trace[i].fn = "importSchemas" /\ trace[i].op \in {"read", "unmarshal", "ddl"}
          /\ ~trace[i].ok) =>
         /\ i = Len(trace)
         /\ pc = "done"
         /\ err.kind \in {"readFile", "unmarshal", "execSQL"}
         /\ err.path = SchemaFile(trace[i].db)
         /\ trace[i].db = opt.dbs[dbIdx]
         /\ \A j \in DOMAIN trace :
              /\ trace[j].fn # "importStats"
              /\ trace[j].fn = "importSchemas" => \E k \in 1..dbIdx : opt.dbs[k] = trace[j].db
  /\ \A db \in DBs :
       (pc = "importSchemas" /\ \E k \in 1..(dbIdx - 1) : opt.dbs[k] = db)
         \/ pc = "importStats" \/ Happened(LAMBDA e : e.fn = "importStats")
         => /\ Exists(dir, SchemaFile(db))
            /\ Get(dir, SchemaFile(db)).body = "json"
            /\ \A t \in Get(dir, SchemaFile(db)).tabs : DDLExecuted(db, t)

\* C8 witness: the artifact of the first of several databases is missing
\* while statistics artifacts wait in the directory.
MissingArtifactAborted ==
  /\ pc = "done"
  /\ err.kind = "readFile"
  /\ dbIdx = 1
  /\ Len(opt.dbs) > 1
  /\ \E db \in DBs : GlobFiles(dir, db) # <<>>

\* C9: every started process that still runs is referred to by a handler the
\* caller holds (so that it can be released).
StartedInstanceHasHandle ==
  \A id \in DOMAIN procs : procs[id] = "running" => \E h \in handles : h.p = id

\* The names the round trip is claimed for: no separator in them.
ValidName(n) == ~Contains(n, "-")

RoundTripCase ==
  /\ cpc = "decoded"
  /\ ValidName(cTriple.db)
  /\ ValidName(cTriple.table)
  /\ cDir = {EncodePath(cTriple.kind, cTriple.db, cTriple.table)}

\* C10 (as amended): decoding a directory that holds only the file encoded
\* for a (kind, database, table) whose names hold no '-' yields exactly that
\* database with exactly that table.
RoundTripDBTable ==
  RoundTripCase => cOut = {[db |-> cTriple.db, tables |-> <<cTriple.table>>]}

\* C10 (as claimed): the decoded result recovers the kind as well, that is,
\* it is not also the result of decoding the file of the other kind.
RoundTripKind ==
  RoundTripCase =>
    /\ cOut = {[db |-> cTriple.db, tables |-> <<cTriple.table>>]}
    /\ \A k \in Kinds \ {cTriple.kind} :
         parseDBTables({EncodePath(k, cTriple.db, cTriple.table)}) # cOut

\* C10 witness: a schema file of names with an upper-case letter and a dot
\* has been decoded.
RoundTripDone ==
  /\ RoundTripCase
  /\ cTriple.kind = "schema"
  /\ cTriple.db = <<"B", ".">>
  /\ cTriple.table = <<"a">>
  /\ cOut # {}

\* The files the run has written to the end (opened and written without
\* error), with the function, database and table of the write.
Written == {trace[i] : i \in {j \in DOMAIN trace : trace[j].op = "write" /\ trace[j].ok}}

\* C11: every artifact the export has written is recognised by parseDBTables:
\* decoding the file of a schema artifact yields its database, decoding the
\* file of a statistics artifact yields its database with its table.
NamingNoDrift ==
  \A e \in Written :
    /\ e.fn = "exportDBSchemas" => \E r \in parseDBTables({e.file}) : r.db = e.db
    /\ e.fn = "exportTableStats" =>
         parseDBTables({e.file}) = {[db |-> e.db, tables |-> <<e.tbl>>]}

\* The run that ended before this one.
Last == prev[Len(prev)]

\* A step of this run failed for another reason than a CREATE TABLE of a
\* table the destination held when the run began.
OtherFailure ==
  \E i \in DOMAIN trace :
    /\ ~trace[i].ok
    /\ ~(trace[i].op = "ddl" /\ <<trace[i].db, trace[i].tbl>> \in Last.dst.tables)

\* C12: when importSchemas has run without error against a destination and
\* the command is run again with the same directory, the second run returns
\* no error and leaves the destination with the databases and tables the
\* first run left.
SchemaImportIdempotent ==
  (/\ prev # <<>>
   /\ Last.err.kind \in {"nil", "loadStats"}
   /\ pc = "done"
   /\ ~OtherFailure)
    => /\ err = NoErr
       /\ dst = Last.dst

\* The tables whose statement the DDL artifact of a database holds.
ArtifactTables(db) ==
  IF Exists(dir, SchemaFile(db)) THEN Get(dir, SchemaFile(db)).tabs ELSE {}

\* The tables for which exportTableStats was called.
StatsAttempted(db) == {t \in Range(srcDB.tables) : StatsHandled(db, t)}

\* C13: schema export and statistics export of a run select the same
\* tables: a table whose statistics export is attempted has its statement in
\* the DDL artifact of its database, and once both exports have run to their
\* end the two sets of tables are equal, for every database.
SameTablesSelected ==
  /\ \A db \in DBs : SchemaExported(db) => StatsAttempted(db) \subseteq ArtifactTables(db)
  /\ ExportComplete => \A db \in DBs : ArtifactTables(db) = StatsAttempted(db)

\* C13 witness: both exports have run with an include list that selects one
\* of the tables of the source and leaves another out.
IncludeListApplied ==
  /\ ExportComplete
  /\ opt.tables = <<t1>>
  /\ opt.ignoreTables = <<>>
  /\ Len(opt.dbs) > 1
  /\ \A db \in DBs : ArtifactTables(db) = {t1} /\ StatsAttempted(db) = {t1}
  /\ T2 \in Range(srcDB.tables)

\* The file of that name, as a set (empty when there is none).
FileOf(d, name) == {f \in d : f.name = name}

\* C14: a statistics request answered with a non-success status is a failed
\* fetch: exportTableStats reports an error for the table, the run ends with
\* it, the table's statistics artifact is left as the run found it, and no
\* file of the directory holds the body of an error response.
Non2xxIsFailedFetch ==
  /\ \A i \in DOMAIN trace :
       (trace[i].fn = "exportTableStats" /\ trace[i].op = "status2xx" /\ ~trace[i].ok) =>
         LET name == StatsFile(trace[i].db, trace[i].tbl)
         IN /\ pc = "done"
            /\ err.kind = "exportTableStats"
            /\ FileOf(dir, name) = FileOf(dir0, name)
  /\ \A f \in dir : f.body # "errbody"

\* The events of the run that name a file.
FileEvents == {trace[i] : i \in {j \in DOMAIN trace : trace[j].file # <<>>}}

\* C15: the file names of a run hold the lower-cased names (the DDL artifact
\* export writes and import reads, the statistics artifact export writes),
\* while "show create table" and the statistics request carry the names of
\* the database as given and of the table as the source lists it.
FileNamesLowerCased ==
  /\ \A e \in FileEvents :
       /\ e.fn \in {"exportDBSchemas", "importSchemas"} => e.file = SchemaFile(ToLower(e.db))
       /\ e.fn = "exportTableStats" => e.file = StatsFile(ToLower(e.db), ToLower(e.tbl))
  /\ \A i \in DOMAIN trace :
       trace[i].op \in {"showCreate", "get"} =>
         /\ trace[i].db \in DBs
         /\ trace[i].tbl \in Range(srcDB.tables)

\* The (database, table) a file name stands for, by the naming convention
\* alone: the prefix and suffix of a kind around two names joined by the one
\* '-' between them.  The empty set for every other name.
PairsOfShape(f, pfx, sfx) ==
  IF HasPrefix(f, pfx) /\ HasSuffix(f, sfx) /\ Len(f) >= Len(pfx) + Len(sfx)
  THEN LET mid == SubSeq(f, Len(pfx) + 1, Len(f) - Len(sfx))
       IN {<<SubSeq(mid, 1, k - 1), SubSeq(mid, k + 1, Len(mid))>> :
             k \in {j \in DOMAIN mid : mid[j] = "-" /\ \A i \in DOMAIN mid : mid[i] = "-" => i = j}}
  ELSE {}

ArtifactPairs(f) == PairsOfShape(f, PfxSchema, SfxSql) \cup PairsOfShape(f, PfxStats, SfxJson)

DecodedPairs == UNION {{<<r.db, r.tables[i]>> : i \in DOMAIN r.tables} : r \in cOut}

\* C16: parseDBTables returns exactly the (database, table) pairs of the
\* files of the directory that have the prefix and suffix of a kind and two
\* fields between them, one entry per such file; every other file adds
\* nothing.
DecodeSkipsUnrelated ==
  cpc = "decoded" =>
    /\ DecodedPairs = UNION {ArtifactPairs(f) : f \in cDir}
    /\ \A r \in cOut :
         /\ Len(r.tables) = Cardinality({f \in cDir : \E p \in ArtifactPairs(f) : p[1] = r.db})
         /\ \A q \in cOut : q.db = r.db => q = r

\* C16 witness: a directory with every one of the other files and the
\* statistics artifact of (a, B) has been decoded.
DecodedAmongUnrelated ==
  /\ cpc = "decoded"
  /\ OtherFiles \subseteq cDir
  /\ cTriple = [kind |-> "stats", db |-> <<"a">>, table |-> <<"B">>]
  /\ cOut = {[db |-> <<"a">>, tables |-> <<"B", "a">>]}

\* The files for which "load stats" was issued for a database.
StatsLoaded(db) ==
  {trace[i].file : i \in {j \in DOMAIN trace : /\ trace[j].fn = "importStats"
                                                /\ trace[j].op = "loadStats"
                                                /\ trace[j].db = db}}

\* The tables whose statement was executed on the destination.
TablesExecuted(db) ==
  {trace[i].tbl : i \in {j \in DOMAIN trace : /\ trace[j].fn = "importSchemas"
                                               /\ trace[j].op = "ddl"
                                               /\ trace[j].db = db
                                               /\ trace[j].ok}}

\* C17: when a run with a source and a destination ends without error, the
\* statistics loaded for a database are those of the tables whose statement
\* was executed on the destination, which are the tables the filter passed
\* at export, whatever the directory held before the run.
LoadedEqualsExecuted ==
  (pc = "done" /\ err = NoErr /\ opt.srcAddr /\ opt.dstAddr) =>
    \A db \in DBs :
      /\ TablesExecuted(db) = Range(SchemaSelected(srcDB.tables))
      /\ StatsLoaded(db) = {StatsFile(db, t) : t \in TablesExecuted(db)}

====
